---- MODULE Spec2Model ----
(***************************************************************************)
(* Model of syft.core.common.uid (UID) and syft.core.worker.worker         *)
(* (Worker).  Python values are records tagged with a `type` field, so     *)
(* that a None, a bool, an int, a uuid.UUID and a UID stay distinguishable.*)
(***************************************************************************)
EXTENDS Integers, Sequences, FiniteSets, TLC

VARIABLES
    self,         \* uid.py: the UID a method is called on
    other,        \* uid.py: the right operand of ==, any Python value
    eq_result,    \* value returned by self.__eq__(other)
    hash_self,    \* value returned by self.__hash__()
    hash_other,   \* value returned by other.__hash__() when other is a UID
    proto,        \* ProtoUID produced by self._object2proto()
    restored,     \* value returned by UID._proto2object(proto)
    rt_result,    \* value of the expression  restored == self
    worker,       \* worker.py: slot -> the instance attributes bound so far
    wstate,       \* slot -> "Constructing" | "Ready" | "Failed"
    args,         \* slot -> the arguments __init__ was called with
    last,         \* slot -> the last call on the Worker and its outcome
    log           \* slot -> the recv_msg calls served, with their outcomes

uidVars == <<self, other, eq_result, hash_self, hash_other, proto, restored, rt_result>>
workerVars == <<worker, wstate, args, last, log>>
vars == <<self, other, eq_result, hash_self, hash_other, proto, restored, rt_result,
          worker, wstate, args, last, log>>

----------------------------------------------------------------------------
(* Python values *)

PyNone == [type |-> "NoneType"]
PyBool(b) == [type |-> "bool", v |-> b]
PyInt(n) == [type |-> "int", v |-> n]
PyStr(s) == [type |-> "str", v |-> s]
Unset == [type |-> "unset"]

IsTrue(x) == x.type = "bool" /\ x.v = TRUE

Return(v) == [kind |-> "return", value |-> v]
Raise(e) == [kind |-> "raise", exc |-> e]

----------------------------------------------------------------------------
(* uuid.UUID: an integer of UUIDBytes bytes (16 in the library; the width  *)
(* is scaled down so that the integers stay within TLC's range)            *)

UUIDBytes == 2
ByteBase == 256

RECURSIVE Pow(_, _)
Pow(b, n) == IF n = 0 THEN 1 ELSE b * Pow(b, n - 1)

MaxUUIDInt == Pow(ByteBase, UUIDBytes) - 1

UUID(n) == [type |-> "UUID", int |-> n]

\* uuid.UUID.__eq__: compares the integer values
UUID_eq(x, y) == x.int = y.int

\* uuid.UUID.bytes: the integer as UUIDBytes bytes, most significant first
UUID_bytes(u) ==
    [i \in 1..UUIDBytes |-> (u.int \div Pow(ByteBase, UUIDBytes - i)) % ByteBase]

RECURSIVE IntFromBytes(_)
IntFromBytes(b) ==
    IF Len(b) = 0 THEN 0
    ELSE IntFromBytes(SubSeq(b, 1, Len(b) - 1)) * ByteBase + b[Len(b)]

\* a plausible slip: the bytes read least significant first
UUID_from_bytes_little_endian(b) ==
    UUID(IntFromBytes([i \in 1..Len(b) |-> b[Len(b) + 1 - i]]))

\* uuid.UUID(bytes=b)
UUID_from_bytes(b) == UUID(IntFromBytes(b))

UUIDInts == {0, 1, ByteBase - 1, ByteBase, ByteBase + 1, MaxUUIDInt}
UUIDs == {UUID(n) : n \in UUIDInts}

----------------------------------------------------------------------------
(* UID *)

\* UID.__init__(value, as_wrapper); fresh is the draw of uuid.uuid4()
UID_init(value, as_wrapper, fresh) ==
    [type |-> "UID",
     value |-> IF value = PyNone THEN fresh ELSE value,
     as_wrapper |-> as_wrapper]

\* a plausible slip: the wrapper flag mixed into the hash
UID_hash_with_flag(u) == u.value.int + (IF u.as_wrapper THEN 1 ELSE 0)

\* UID.__hash__
UID_hash(u) == u.value.int

\* UID.__eq__: no else branch, so a non-UID operand falls through to None
UID_eq(u, o) ==
    IF o.type = "UID" THEN PyBool(UUID_eq(u.value, o.value)) ELSE PyNone

\* UID._object2proto
UID_object2proto(u) ==
    [obj_type |-> "syft.core.common.uid.UID",
     value |-> UUID_bytes(u.value),
     as_wrapper |-> u.as_wrapper]

\* a plausible slip: the wrapper branch left out
UID_proto2object_always_uid(p) ==
    UID_init(UUID_from_bytes(p.value), FALSE, PyNone)

\* UID._proto2object
UID_proto2object(p) ==
    LET value == UUID_from_bytes(p.value)
    IN  IF p.as_wrapper THEN value ELSE UID_init(value, FALSE, PyNone)

\* The expression  x == y  for x a uuid.UUID or a UID and y a UID:
\* uuid.UUID.__eq__ answers NotImplemented for a non-UUID, and Python then
\* asks the reflected y.__eq__(x).
PyEq(x, y) ==
    IF x.type = "UID" THEN UID_eq(x, y)
    ELSE IF x.type = "UUID" /\ y.type = "UUID" THEN PyBool(UUID_eq(x, y))
    ELSE UID_eq(y, x)

UIDs == {UID_init(v, w, f) : v \in UUIDs \cup {PyNone}, w \in BOOLEAN, f \in {UUID(1)}}
Operands == UIDs \cup UUIDs \cup {PyNone, PyInt(42), PyStr("x")}

UIDIdle ==
    /\ eq_result = Unset /\ hash_self = Unset /\ hash_other = Unset
    /\ proto = Unset /\ restored = Unset /\ rt_result = Unset

UIDInit ==
    /\ self \in UIDs
    /\ other \in Operands
    /\ UIDIdle

Eq ==
    /\ eq_result = Unset
    /\ eq_result' = UID_eq(self, other)
    /\ UNCHANGED <<self, other, hash_self, hash_other, proto, restored, rt_result>>
    /\ UNCHANGED workerVars

Hash ==
    /\ hash_self = Unset
    /\ hash_self' = PyInt(UID_hash(self))
    /\ hash_other' = IF other.type = "UID" THEN PyInt(UID_hash(other)) ELSE Unset
    /\ UNCHANGED <<self, other, eq_result, proto, restored, rt_result>>
    /\ UNCHANGED workerVars

Serialize ==
    /\ proto = Unset
    /\ proto' = UID_object2proto(self)
    /\ UNCHANGED <<self, other, eq_result, hash_self, hash_other, restored, rt_result>>
    /\ UNCHANGED workerVars

Deserialize ==
    /\ proto # Unset
    /\ restored = Unset
    /\ restored' = UID_proto2object(proto)
    /\ UNCHANGED <<self, other, eq_result, hash_self, hash_other, proto, rt_result>>
    /\ UNCHANGED workerVars

Compare ==
    /\ restored # Unset
    /\ rt_result = Unset
    /\ rt_result' = PyEq(restored, self)
    /\ UNCHANGED <<self, other, eq_result, hash_self, hash_other, proto, restored>>
    /\ UNCHANGED workerVars

UIDNext == Eq \/ Hash \/ Serialize \/ Deserialize \/ Compare

----------------------------------------------------------------------------
(* Collaborators of Worker whose code is outside worker.py *)

\* the message classes worker.py imports, i.e. the kinds the router serves
RouterKinds ==
    {"RunClassMethodMessage", "SaveObjectMessage", "GetObjectMessage",
     "DeleteObjectMessage", "RunFunctionOrConstructorMessage"}

\* service.message_service_mapping: message kind -> handler
message_service_mapping == [k \in RouterKinds |-> <<"service", k>>]

\* ObjectStore(): a store with no entry
ObjectStore_new == [type |-> "ObjectStore", objects |-> <<>>]

\* Globals(): a call graph with no attribute
Globals_new == [type |-> "Globals", attrs |-> <<>>]

\* WorkerStats()
WorkerStats_new == [type |-> "WorkerStats"]

----------------------------------------------------------------------------
(* Inputs *)

MaxFrameworks == 2
MaxLog == 2
ScenarioLen == 4

Slots == {1, 2}
WorkerNames == {"node-a", "node-b"}

\* A framework is its fw.ast.attrs: (name, ast) items in iteration order.
Torch == << <<"torch", "ast_torch">> >>
TorchAlt == << <<"torch", "ast_torch_alt">> >>
Numpy == << <<"numpy", "ast_numpy">> >>
Multi == << <<"tensorflow", "ast_tensorflow">>, <<"numpy", "ast_numpy_alt">> >>
Frameworks == {Torch, TorchAlt, Numpy, Multi}

FrameworkLists == UNION {[1..n -> Frameworks] : n \in 0..MaxFrameworks}

KeyUIDs == {UID_init(UUID(n), FALSE, PyNone) : n \in {0, 1}}
Objects == {PyInt(42), PyStr("x")}

SaveObject(u, o) == [kind |-> "SaveObjectMessage", uid |-> u, object |-> o]
GetObject(u) == [kind |-> "GetObjectMessage", uid |-> u]
DeleteObject(u) == [kind |-> "DeleteObjectMessage", uid |-> u]

Messages ==
    {SaveObject(u, o) : u \in KeyUIDs, o \in Objects}
    \cup {GetObject(u) : u \in KeyUIDs}
    \cup {DeleteObject(u) : u \in KeyUIDs}
    \cup {[kind |-> "RunClassMethodMessage"],
          [kind |-> "RunFunctionOrConstructorMessage"],
          [kind |-> "UnregisteredMessage"]}

----------------------------------------------------------------------------
(* Worker *)

\* a plausible slip: the debug test dropped
WorkerStats_always(debug) == WorkerStats_new

\* Worker.__init__, the worker_stats attribute
WorkerStatsFor(debug) == IF debug THEN WorkerStats_new ELSE PyNone

\* a plausible slip: the membership test left out, the later entry wins
RegisterItem_overwrite(attrs, name, ast) ==
    [raised |-> FALSE,
     attrs |-> [n \in DOMAIN attrs \cup {name} |-> IF n = name THEN ast ELSE attrs[n]]]

\* a plausible slip: the table replaced instead of extended
RegisterItem_replace(attrs, name, ast) ==
    IF name \in DOMAIN attrs
    THEN [raised |-> TRUE, attrs |-> attrs]
    ELSE [raised |-> FALSE, attrs |-> (name :> ast)]

\* Worker.__init__, the body of the inner loop
RegisterItem(attrs, name, ast) ==
    IF name \in DOMAIN attrs
    THEN [raised |-> TRUE, attrs |-> attrs]
    ELSE [raised |-> FALSE, attrs |-> (name :> ast) @@ attrs]

\* Worker.__init__, the inner loop: for name, ast in fw.ast.attrs.items()
RECURSIVE RegisterFramework(_, _)
RegisterFramework(attrs, items) ==
    IF items = <<>> THEN [raised |-> FALSE, attrs |-> attrs]
    ELSE LET r == RegisterItem(attrs, items[1][1], items[1][2])
         IN  IF r.raised THEN r ELSE RegisterFramework(r.attrs, Tail(items))

\* Worker.__init__, the outer loop: for fw in supported_frameworks
RECURSIVE RegisterFrameworks(_, _)
RegisterFrameworks(attrs, fws) ==
    IF fws = <<>> THEN [raised |-> FALSE, attrs |-> attrs]
    ELSE LET r == RegisterFramework(attrs, fws[1])
         IN  IF r.raised THEN r ELSE RegisterFrameworks(r.attrs, Tail(fws))

\* Worker.__init__: the attributes bound when it returns or raises
Worker_init(id, debug, supported_frameworks) ==
    LET g == Globals_new
        reg == RegisterFrameworks(g.attrs, supported_frameworks)
        partial == [id |-> id,
                    store |-> ObjectStore_new,
                    frameworks |-> [g EXCEPT !.attrs = reg.attrs]]
    IN  IF reg.raised
        THEN [self |-> partial, outcome |-> Raise("KeyError")]
        ELSE [self |-> [id |-> partial.id,
                        store |-> partial.store,
                        frameworks |-> partial.frameworks,
                        msg_router |-> message_service_mapping,
                        worker_stats |-> WorkerStatsFor(debug)],
              outcome |-> Return(PyNone)]

\* a plausible slip: the statistics collector answers in place of the handler
Worker_recv_msg_observed(w, msg) ==
    [self |-> w,
     outcome |-> Return(IF w.worker_stats.type = "WorkerStats"
                        THEN w.worker_stats ELSE PyNone)]

\* Worker.recv_msg: the body is `pass`
Worker_recv_msg(w, msg) == [self |-> w, outcome |-> Return(PyNone)]

\* a plausible slip: the abstract method left as `pass`
Worker__send_msg_pass(w) == [self |-> w, outcome |-> Return(PyNone)]

\* Worker._send_msg
Worker__send_msg(w) == [self |-> w, outcome |-> Raise("NotImplementedError")]

\* Worker._recv_msg
Worker__recv_msg(w) == [self |-> w, outcome |-> Raise("NotImplementedError")]

NoWorker == <<>>
NoArgs == [called |-> FALSE]
NoCall == [op |-> "none"]

WorkerInit ==
    /\ worker = [s \in Slots |-> NoWorker]
    /\ wstate = [s \in Slots |-> "Constructing"]
    /\ args = [s \in Slots |-> NoArgs]
    /\ last = [s \in Slots |-> NoCall]
    /\ log = [s \in Slots |-> <<>>]

\* Worker(id, debug[s], fws) evaluated for every slot of S
Construct(S, id, debug, fws) ==
    /\ \A s \in S : wstate[s] = "Constructing"
    /\ worker' = [s \in Slots |->
                    IF s \in S THEN Worker_init(id, debug[s], fws).self ELSE worker[s]]
    /\ wstate' = [s \in Slots |->
                    IF s \notin S THEN wstate[s]
                    ELSE IF Worker_init(id, debug[s], fws).outcome.kind = "raise"
                         THEN "Failed" ELSE "Ready"]
    /\ args' = [s \in Slots |->
                    IF s \in S
                    THEN [called |-> TRUE, id |-> id, debug |-> debug[s],
                          supported_frameworks |-> fws]
                    ELSE args[s]]
    /\ last' = [s \in Slots |->
                    IF s \in S
                    THEN [op |-> "__init__",
                          outcome |-> Worker_init(id, debug[s], fws).outcome]
                    ELSE last[s]]
    /\ UNCHANGED log

\* w.recv_msg(msg) called on the Worker of every slot of S
RecvMsg(S, msg) ==
    /\ \A s \in S : wstate[s] = "Ready"
    /\ worker' = [s \in Slots |->
                    IF s \in S THEN Worker_recv_msg(worker[s], msg).self ELSE worker[s]]
    /\ last' = [s \in Slots |->
                    IF s \in S
                    THEN [op |-> "recv_msg", msg |-> msg,
                          outcome |-> Worker_recv_msg(worker[s], msg).outcome]
                    ELSE last[s]]
    /\ log' = [s \in Slots |->
                    IF s \in S
                    THEN Append(log[s],
                                [msg |-> msg,
                                 outcome |-> Worker_recv_msg(worker[s], msg).outcome])
                    ELSE log[s]]
    /\ UNCHANGED <<wstate, args>>

\* w._send_msg()
SendMsg(s) ==
    /\ wstate[s] = "Ready"
    /\ worker' = [worker EXCEPT ![s] = Worker__send_msg(worker[s]).self]
    /\ last' = [last EXCEPT ![s] =
                    [op |-> "_send_msg", outcome |-> Worker__send_msg(worker[s]).outcome]]
    /\ UNCHANGED <<wstate, args, log>>

\* w._recv_msg()
PrivateRecvMsg(s) ==
    /\ wstate[s] = "Ready"
    /\ worker' = [worker EXCEPT ![s] = Worker__recv_msg(worker[s]).self]
    /\ last' = [last EXCEPT ![s] =
                    [op |-> "_recv_msg", outcome |-> Worker__recv_msg(worker[s]).outcome]]
    /\ UNCHANGED <<wstate, args, log>>

----------------------------------------------------------------------------
(* Specifications *)

UIDFixed ==
    /\ self = UID_init(UUID(0), FALSE, PyNone)
    /\ other = PyNone
    /\ UIDIdle

\* One Worker: any construction, then any calls.
Init == UIDFixed /\ WorkerInit

ConstructAny ==
    /\ \E id \in WorkerNames, debug \in BOOLEAN, fws \in FrameworkLists :
          Construct({1}, id, [s \in Slots |-> debug], fws)
    /\ UNCHANGED uidVars

Receive ==
    /\ Len(log[1]) < MaxLog
    /\ \E msg \in Messages : RecvMsg({1}, msg)
    /\ UNCHANGED uidVars

Send == SendMsg(1) /\ UNCHANGED uidVars

PrivateReceive == PrivateRecvMsg(1) /\ UNCHANGED uidVars

Next == ConstructAny \/ Receive \/ Send \/ PrivateReceive

Spec == Init /\ [][Next]_vars

\* The UID methods on every pair of operands.
UIDSpecInit == UIDInit /\ WorkerInit

UIDSpec == UIDSpecInit /\ [][UIDNext]_vars

\* The scenario of a Worker with no framework and debug off.
ConstructPlain ==
    /\ \E id \in WorkerNames : Construct({1}, id, [s \in Slots |-> FALSE], <<>>)
    /\ UNCHANGED uidVars

ReceiveScenario ==
    /\ Len(log[1]) < ScenarioLen
    /\ \E msg \in Messages : RecvMsg({1}, msg)
    /\ UNCHANGED uidVars

ScenarioNext == ConstructPlain \/ ReceiveScenario

ScenarioSpec == Init /\ [][ScenarioNext]_vars

\* Two Workers built from the same id and frameworks, slot 1 with debug on and
\* slot 2 with debug off, served the same messages in the same order.
ConstructPair ==
    /\ \E id \in WorkerNames, fws \in FrameworkLists :
          Construct(Slots, id, [s \in Slots |-> s = 1], fws)
    /\ UNCHANGED uidVars

ReceivePair ==
    /\ Len(log[1]) < MaxLog
    /\ \E msg \in Messages : RecvMsg(Slots, msg)
    /\ UNCHANGED uidVars

PairNext == ConstructPair \/ ReceivePair

PairSpec == Init /\ [][PairNext]_vars

----------------------------------------------------------------------------
(* Properties *)

Ack == [type |-> "Ack"]
NotFound == [type |-> "NotFound"]

Msgs(l) == [i \in 1..Len(l) |-> l[i].msg]

\* the names a framework registers
NamesOf(fw) == {fw[p][1] : p \in 1..Len(fw)}

\* two frameworks of the list, at different positions, share a name
HasSharedName(fws) ==
    \E i, j \in 1..Len(fws) : i < j /\ NamesOf(fws[i]) \cap NamesOf(fws[j]) # {}

\* the 128-bit value carried by what _proto2object returned
ValueOf(x) == IF x.type = "UID" THEN x.value.int ELSE x.int

\* C1: on a Worker built with an id, no frameworks and debug off, the calls
\* recv_msg(SaveObject{U, o}), recv_msg(GetObject{U}), recv_msg(DeleteObject{U}),
\* recv_msg(GetObject{U}) in a row return Ack, o, Ack and NotFound.
C1_SaveGetDeleteGet ==
    \A i \in 1..Len(log[1]) : \A u \in KeyUIDs, o \in Objects :
        ( /\ args[1].called /\ ~args[1].debug /\ args[1].supported_frameworks = <<>>
          /\ i + 3 <= Len(log[1])
          /\ log[1][i].msg = SaveObject(u, o)
          /\ log[1][i + 1].msg = GetObject(u)
          /\ log[1][i + 2].msg = DeleteObject(u)
          /\ log[1][i + 3].msg = GetObject(u) )
        => /\ log[1][i].outcome = Return(Ack)
           /\ log[1][i + 1].outcome = Return(o)
           /\ log[1][i + 2].outcome = Return(Ack)
           /\ log[1][i + 3].outcome = Return(NotFound)

\* C2: constructing a Worker from a list in which two frameworks share a name
\* raises the duplicate-framework error (KeyError), the router is never bound
\* and the Worker serves no recv_msg, then or later.
C2_DuplicateFrameworkRejected ==
    \A s \in Slots :
        (args[s].called /\ HasSharedName(args[s].supported_frameworks))
        => /\ wstate[s] = "Failed"
           /\ last[s] = [op |-> "__init__", outcome |-> Raise("KeyError")]
           /\ "msg_router" \notin DOMAIN worker[s]
           /\ log[s] = <<>>

C2_Witness ==
    /\ wstate[1] = "Failed"
    /\ args[1].called
    /\ args[1].supported_frameworks = <<Torch, TorchAlt>>

C4_EqIsTotalBoolean ==
    eq_result # Unset
    => /\ eq_result.type = "bool"
       /\ eq_result.v <=> (other.type = "UID" /\ other.value.int = self.value.int)

\* C5: recv_msg on a Ready Worker with a message whose kind has no handler in the
\* router fails with UnknownMessageKind; it never returns normally.
C5_UnknownKindFails ==
    \A s \in Slots :
        (last[s].op = "recv_msg" /\ last[s].msg.kind \notin DOMAIN worker[s].msg_router)
        => last[s].outcome = Raise("UnknownMessageKind")

\* C6: UIDs that compare equal have equal hashes, and the hash is the integer
\* form of the value equality compares.
C6_EqualImpliesSameHash ==
    (eq_result # Unset /\ hash_self # Unset)
    => /\ hash_self = PyInt(self.value.int)
       /\ IsTrue(eq_result) => hash_other = hash_self

C6_Witness ==
    /\ IsTrue(eq_result)
    /\ hash_self # Unset
    /\ other.type = "UID"
    /\ other.as_wrapper # self.as_wrapper

\* C7: a call of _send_msg or _recv_msg on the base Worker raises
\* NotImplementedError and leaves every attribute of the Worker as it was.
C7_AbstractTransportFails ==
    [][\A s \in Slots :
          (last'[s] # last[s] /\ last'[s].op \in {"_send_msg", "_recv_msg"})
          => /\ last'[s].outcome = Raise("NotImplementedError")
             /\ worker'[s] = worker[s]
             /\ wstate'[s] = wstate[s]]_vars

C7_Witness ==
    /\ last[1].op = "_send_msg"
    /\ last[1].outcome = Raise("NotImplementedError")
    /\ args[1].debug
    /\ args[1].supported_frameworks # <<>>
    /\ log[1] # <<>>

\* C8: a statistics collector is attached iff debug is set, and two Workers built
\* from the same id and frameworks that were served the same messages returned
\* the same responses and hold the same store, whatever their debug flags.
C8_StatsDoNotAlterDispatch ==
    /\ \A s \in Slots :
          wstate[s] = "Ready"
          => (worker[s].worker_stats.type = "WorkerStats" <=> args[s].debug)
    /\ \A s, t \in Slots :
          ( /\ wstate[s] = "Ready" /\ wstate[t] = "Ready"
            /\ args[s].id = args[t].id
            /\ args[s].supported_frameworks = args[t].supported_frameworks
            /\ Msgs(log[s]) = Msgs(log[t]) )
          => /\ log[s] = log[t]
             /\ worker[s].store = worker[t].store

C8_Witness ==
    /\ wstate[1] = "Ready" /\ wstate[2] = "Ready"
    /\ args[1].debug /\ ~args[2].debug
    /\ Len(log[1]) = 2 /\ Len(log[2]) = 2
    /\ log[1][1].msg.kind = "SaveObjectMessage"

C10_ConstructionResult ==
    \A s \in Slots :
        args[s].called
        => LET fws == args[s].supported_frameworks
           IN  /\ ~HasSharedName(fws) => wstate[s] = "Ready"
               /\ (wstate[s] = "Ready" /\ last[s].op = "__init__")
                  => /\ worker[s].store.objects = <<>>
                     /\ worker[s].msg_router = message_service_mapping
                     /\ DOMAIN worker[s].frameworks.attrs
                            = UNION {NamesOf(fws[i]) : i \in 1..Len(fws)}
                     /\ \A i \in 1..Len(fws) : \A p \in 1..Len(fws[i]) :
                            worker[s].frameworks.attrs[fws[i][p][1]] = fws[i][p][2]

C10_Witness ==
    /\ wstate[1] = "Ready"
    /\ last[1].op = "__init__"
    /\ args[1].supported_frameworks = <<Torch, Multi>>

====
